---------------------------- MODULE Spec2Model ----------------------------
(***************************************************************************)
(* Model of kmeans.go: a generic k-means clusterer (KMeans[T]) with a      *)
(* farthest-point seeder (initClusters) and a Lloyd refinement loop        *)
(* (partition).                                                            *)
(*                                                                         *)
(* T is instantiated with 1-D numbers.  A number is a pair <<n, d>>, the   *)
(* fraction n/d in lowest terms with d > 0; <<0, 0>> is the float NaN and  *)
(* <<1, 0>> is math.MaxFloat64.  The injected functions are                *)
(*   distance = |a - b|, mean = arithmetic average, equals = "==".         *)
(* Arithmetic is exact: float64 rounding of quotients is not modelled.     *)
(* Calculate is followed step by step: the first seed, each round of the   *)
(* seeding loop, each assignment loop and each update loop of partition.   *)
(* Nodes is only ever appended to, so a run that does not leave the loop   *)
(* ends when the heap (MaxMembers elements) is exhausted: pc = "oom".      *)
(* Indices are 0-based as in the source; sequences are 1-based, so         *)
(* position i of a slice s is s[i + 1].                                    *)
(***************************************************************************)
EXTENDS Integers, Sequences, FiniteSets, TLC

\* ------------------------------ bounds ---------------------------------
\* longest enumerated observation collection
MaxLen == 3
\* observation values of the enumerated collections are 1..MaxVal
MaxVal == 4
\* members (elements of all Nodes slices together) the heap has room for
MaxMembers == 12

\* ------------------------------ numbers --------------------------------
NaN == <<0, 0>>
MaxFloat64 == <<1, 0>>

IsNaN(x) == x = NaN

Abs(n) == IF n < 0 THEN -n ELSE n

RECURSIVE Gcd(_, _)
Gcd(a, b) == IF b = 0 THEN a ELSE Gcd(b, a % b)

\* a/b in lowest terms, b > 0
Reduce(a, b) == <<a \div Gcd(Abs(a), b), b \div Gcd(Abs(a), b)>>

\* an observation value as a number
Num(v) == <<v, 1>>

\* float64 "a < b" on fractions that need not be in lowest terms: false
\* whenever either side is NaN
Less(a, b) ==
    IF IsNaN(a) \/ IsNaN(b) THEN FALSE
    ELSE IF a = MaxFloat64 THEN FALSE
    ELSE IF b = MaxFloat64 THEN TRUE
    ELSE a[1] * b[2] < b[1] * a[2]

\* x < y (x and y are evaluated once)
FLess(x, y) == \E a \in {x} : \E b \in {y} : Less(a, b)

\* ------------------------------ inputs ---------------------------------
Example == <<Num(1), Num(2), Num(3), Num(10), Num(11), Num(12)>>
TwoPass == <<Num(1), Num(2), Num(3), Num(5)>>

SeqsUpTo(n) == UNION {[1..m -> {Num(v) : v \in 1..MaxVal}] : m \in 0..n}

\* the observation collections a caller may pass to NewKMeans
DataSets == SeqsUpTo(MaxLen) \cup {Example, TwoPass}

\* what the caller's mean function does with an empty slice
EmptyMeanPolicies == {"nan", "zero", "panic"}

\* ------------------------------ state ----------------------------------
VARIABLES
    pc,          \* position of the caller / of Calculate
    arg,         \* the data argument passed to NewKMeans
    k,           \* NewKMeans' first result: "nil" or "KMeans"
    err,         \* NewKMeans' second result is a non-nil error
    data,        \* k.data
    emptyMean,   \* behaviour of k.mean on an empty slice
    numClusters, \* argument of Calculate
    idx,         \* initClusters: idx, the chosen positions
    clusters,    \* the []Cluster[T] built by initClusters, mutated by partition
    changed,     \* partition: changed
    eqs,         \* partition: results of k.equals(pc, Centroid) in the last update loop
    iter         \* completed assignment+update iterations

vars == <<pc, arg, k, err, data, emptyMean, numClusters, idx, clusters, changed, eqs, iter>>

\* --------------------------- injected functions ------------------------
\* DistanceFn: |a - b| as a float64, a fraction not reduced to lowest terms
distance(a, b) ==
    IF IsNaN(a) \/ IsNaN(b) THEN NaN
    ELSE <<Abs(a[1] * b[2] - b[1] * a[2]), a[2] * b[2]>>

\* EqualsFn: a == b on floats (NaN equals nothing)
equals(a, b) == ~IsNaN(a) /\ ~IsNaN(b) /\ a = b

\* a + b, not reduced to lowest terms (a and b are evaluated once)
Add(a, b) ==
    CHOOSE r \in {<<x[1] * y[2] + y[1] * x[2], x[2] * y[2]>> : x \in {a}, y \in {b}} : TRUE

\* the sum of the elements n[i..] of a slice without NaN
RECURSIVE SumFrom(_, _)
SumFrom(n, i) == IF i > Len(n) THEN <<0, 1>> ELSE Add(n[i], SumFrom(n, i + 1))

\* MeanFn panics (integer division by zero) on an empty slice
meanPanics(n) == Len(n) = 0 /\ emptyMean = "panic"

\* MeanFn: arithmetic average; on an empty slice NaN (0.0/0) or a sentinel 0
mean(n) ==
    IF Len(n) = 0 THEN (IF emptyMean = "nan" THEN NaN ELSE <<0, 1>>)
    ELSE IF \E i \in 1..Len(n) : IsNaN(n[i]) THEN NaN
    ELSE CHOOSE r \in {Reduce(s[1], s[2] * Len(n)) : s \in {SumFrom(n, 1)}} : TRUE

\* ------------------------------ helpers --------------------------------
in_never(i, p) == FALSE

\* func in(i int, p []int) bool
in(i, p) == \E j \in 1..Len(p) : p[j] = i

\* nearestCluster, the loop from index i on with the running minimum
RECURSIVE nearestFrom(_, _, _, _, _)
nearestFrom(node, cl, i, minDistance, best) ==
    IF i >= Len(cl) THEN best
    ELSE LET clusterDistance == distance(node, cl[i + 1].Centroid)
         IN IF FLess(clusterDistance, minDistance)
            THEN nearestFrom(node, cl, i + 1, clusterDistance, i)
            ELSE nearestFrom(node, cl, i + 1, minDistance, best)

\* func (k *KMeans[T]) nearestCluster(node T, clusters []Cluster[T]) int
nearestCluster(node, cl) == nearestFrom(node, cl, 0, MaxFloat64, -1)

RECURSIVE farthestFrom_lastTie(_, _, _, _, _)
farthestFrom_lastTie(cl, chosen, i, nodeDistance, nodeIdx) ==
    IF i >= Len(data) THEN nodeIdx
    ELSE IF \E j \in 1..Len(chosen) : chosen[j] = i
    THEN farthestFrom_lastTie(cl, chosen, i + 1, nodeDistance, nodeIdx)
    ELSE LET nearest == cl[nearestCluster(data[i + 1], cl) + 1]
             nearestClusterDistance == distance(data[i + 1], nearest.Centroid)
         IN IF ~FLess(nearestClusterDistance, nodeDistance)
            THEN farthestFrom_lastTie(cl, chosen, i + 1, nearestClusterDistance, i)
            ELSE farthestFrom_lastTie(cl, chosen, i + 1, nodeDistance, nodeIdx)

\* initClusters, the inner loop over the data from index i on
\* (every centroid is an observation here, so nearestCluster is never -1)
RECURSIVE farthestFrom(_, _, _, _, _)
farthestFrom(cl, chosen, i, nodeDistance, nodeIdx) ==
    IF i >= Len(data) THEN nodeIdx
    ELSE IF in(i, chosen) THEN farthestFrom(cl, chosen, i + 1, nodeDistance, nodeIdx)
    ELSE LET nearest == cl[nearestCluster(data[i + 1], cl) + 1]
             nearestClusterDistance == distance(data[i + 1], nearest.Centroid)
         IN IF FLess(nodeDistance, nearestClusterDistance)
            THEN farthestFrom(cl, chosen, i + 1, nearestClusterDistance, i)
            ELSE farthestFrom(cl, chosen, i + 1, nodeDistance, nodeIdx)

nextSeed_clamped(cl, chosen) ==
    IF farthestFrom(cl, chosen, 0, Num(-1), -1) = -1 THEN 0
    ELSE farthestFrom(cl, chosen, 0, Num(-1), -1)

\* the position one round of the seeding loop selects (-1 when none is left)
nextSeed(cl, chosen) == farthestFrom(cl, chosen, 0, Num(-1), -1)

\* number of elements of all Nodes slices together
RECURSIVE TotalMembers(_)
TotalMembers(cl) ==
    IF Len(cl) = 0 THEN 0 ELSE Len(Head(cl).Nodes) + TotalMembers(Tail(cl))

\* partition, assignment loop: the first i at which nearestCluster returns -1
\* and clusters[-1] panics, len(k.data) when there is none
assignStop(cl) ==
    LET bad(i) == nearestCluster(data[i + 1], cl) = -1
    IN IF \E i \in 0..(Len(data) - 1) : bad(i)
       THEN CHOOSE i \in 0..(Len(data) - 1) : bad(i) /\ \A j \in 0..(i - 1) : ~bad(j)
       ELSE Len(data)

\* partition, assignment loop: the first i at which append finds the heap
\* exhausted (the runtime then ends the process: out of memory),
\* len(k.data) when every append has room
assignRoom(cl) ==
    IF MaxMembers - TotalMembers(cl) < Len(data)
    THEN MaxMembers - TotalMembers(cl)
    ELSE Len(data)

\* number of observations the assignment loop appends before it ends
assignEnd(cl) ==
    IF assignStop(cl) <= assignRoom(cl) THEN assignStop(cl) ELSE assignRoom(cl)

\* partition, the assignment loop: data[i] is appended to the Nodes of its
\* nearest cluster, for i in slice order (the centroids do not change in
\* this loop); a panic or an exhausted heap ends the loop at that i
assignAll(cl) ==
    [clusters |->
        [j \in 1..Len(cl) |->
            [cl[j] EXCEPT !.Nodes =
                @ \o SelectSeq(SubSeq(data, 1, assignEnd(cl)),
                               LAMBDA x : nearestCluster(x, cl) = j - 1)]],
     crash |-> IF assignEnd(cl) = Len(data) THEN "none"
               ELSE IF assignStop(cl) <= assignRoom(cl) THEN "panic"
               ELSE "oom"]

\* partition, update loop: the first cluster i at which k.mean panics,
\* len(clusters) when there is none
updateStop(cl) ==
    LET bad(i) == meanPanics(cl[i + 1].Nodes)
    IN IF \E i \in 0..(Len(cl) - 1) : bad(i)
       THEN CHOOSE i \in 0..(Len(cl) - 1) : bad(i) /\ \A j \in 0..(i - 1) : ~bad(j)
       ELSE Len(cl)

updateAll_guarded(cl) ==
    LET kept(j) == IF Len(cl[j].Nodes) = 0 THEN cl[j].Centroid ELSE mean(cl[j].Nodes)
        results == [j \in 1..Len(cl) |-> equals(cl[j].Centroid, kept(j))]
    IN [clusters |-> [j \in 1..Len(cl) |-> [cl[j] EXCEPT !.Centroid = kept(j)]],
        changed |-> \E j \in 1..Len(cl) : results[j],
        eqs |-> results,
        panicked |-> FALSE]

updateAll_skipLast(cl) ==
    LET last == IF updateStop(cl) < Len(cl) THEN updateStop(cl) ELSE Len(cl) - 1
        results == [j \in 1..last |-> equals(cl[j].Centroid, mean(cl[j].Nodes))]
    IN [clusters |->
          [j \in 1..Len(cl) |->
              IF j <= last THEN [cl[j] EXCEPT !.Centroid = mean(cl[j].Nodes)]
              ELSE cl[j]],
        changed |-> \E j \in 1..last : results[j],
        eqs |-> results,
        panicked |-> updateStop(cl) < Len(cl)]

\* partition, the update loop: each cluster's Centroid becomes the mean of
\* its Nodes and changedInIteration collects k.equals(pc, Centroid); a
\* panic of k.mean ends the loop and leaves the clusters before it updated
updateAll(cl) ==
    LET results == [j \in 1..updateStop(cl) |->
                       equals(cl[j].Centroid, mean(cl[j].Nodes))]
    IN [clusters |->
          [j \in 1..Len(cl) |->
              IF j <= updateStop(cl)
              THEN [cl[j] EXCEPT !.Centroid = mean(cl[j].Nodes)]
              ELSE cl[j]],
        changed |-> \E j \in 1..updateStop(cl) : results[j],
        eqs |-> results,
        panicked |-> updateStop(cl) < Len(cl)]

\* ------------------------------ actions --------------------------------
Init ==
    /\ pc = "new"
    /\ arg = <<>>
    /\ k = "nil"
    /\ err = FALSE
    /\ data = <<>>
    /\ emptyMean \in EmptyMeanPolicies
    /\ numClusters = 0
    /\ idx = <<>>
    /\ clusters = <<>>
    /\ changed = FALSE
    /\ eqs = <<>>
    /\ iter = 0

emptyData_offByOne(d) == Len(d) <= 1

\* NewKMeans: len(data) == 0
emptyData(d) == Len(d) = 0

\* func NewKMeans(data, distance, mean, equals) (*KMeans[T], error)
NewKMeans(d) ==
    /\ pc = "new"
    /\ arg' = d
    /\ IF emptyData(d)
       THEN /\ k' = "nil"
            /\ err' = TRUE
            /\ data' = data
            /\ pc' = "error"
       ELSE /\ k' = "KMeans"
            /\ err' = FALSE
            /\ data' = d
            /\ pc' = "ready"
    /\ UNCHANGED <<emptyMean, numClusters, idx, clusters, changed, eqs, iter>>

Calculate_emptyForZero(n, r) ==
    /\ pc = "ready"
    /\ numClusters' = n
    /\ idx' = IF n = 0 THEN <<>> ELSE <<r>>
    /\ clusters' = IF n = 0 THEN <<>> ELSE <<[Centroid |-> data[r + 1], Nodes |-> <<>>]>>
    /\ pc' = "seeding"
    /\ UNCHANGED <<arg, k, err, data, emptyMean, changed, eqs, iter>>

\* Calculate is entered and initClusters picks the first center at the
\* random position r
Calculate(n, r) ==
    /\ pc = "ready"
    /\ numClusters' = n
    /\ idx' = <<r>>
    /\ clusters' = <<[Centroid |-> data[r + 1], Nodes |-> <<>>]>>
    /\ pc' = "seeding"
    /\ UNCHANGED <<arg, k, err, data, emptyMean, changed, eqs, iter>>

\* one round of the seeding loop; k.data[-1] panics after idx was appended
SeedRound ==
    /\ pc = "seeding"
    /\ Len(clusters) < numClusters
    /\ LET nodeIdx == nextSeed(clusters, idx)
       IN /\ idx' = Append(idx, nodeIdx)
          /\ IF nodeIdx = -1
             THEN /\ clusters' = clusters
                  /\ pc' = "panic"
             ELSE /\ clusters' = Append(clusters,
                                   [Centroid |-> data[nodeIdx + 1], Nodes |-> <<>>])
                  /\ pc' = "seeding"
    /\ UNCHANGED <<arg, k, err, data, emptyMean, numClusters, changed, eqs, iter>>

SeedReturn_early ==
    /\ pc = "seeding"
    /\ ~(Len(clusters) + 1 < numClusters)
    /\ changed' = TRUE
    /\ pc' = "partition"
    /\ UNCHANGED <<arg, k, err, data, emptyMean, numClusters, idx, clusters, eqs, iter>>

\* the seeding loop ends, initClusters returns and partition is entered
SeedReturn ==
    /\ pc = "seeding"
    /\ ~(Len(clusters) < numClusters)
    /\ changed' = TRUE
    /\ pc' = "partition"
    /\ UNCHANGED <<arg, k, err, data, emptyMean, numClusters, idx, clusters, eqs, iter>>

\* partition: the loop test passes and the assignment loop runs
Assign ==
    /\ pc = "partition"
    /\ changed
    /\ LET a == assignAll(clusters)
       IN /\ clusters' = a.clusters
          /\ pc' = IF a.crash = "none" THEN "update" ELSE a.crash
    /\ UNCHANGED <<arg, k, err, data, emptyMean, numClusters, idx, changed, eqs, iter>>

\* partition: the update loop runs and changed is set
Update ==
    /\ pc = "update"
    /\ LET u == updateAll(clusters)
       IN /\ clusters' = u.clusters
          /\ eqs' = u.eqs
          /\ IF u.panicked
             THEN /\ pc' = "panic"
                  /\ changed' = changed
                  /\ iter' = iter
             ELSE /\ pc' = "partition"
                  /\ changed' = u.changed
                  /\ iter' = iter + 1
    /\ UNCHANGED <<arg, k, err, data, emptyMean, numClusters, idx>>

\* partition: the loop test fails, partition and Calculate return clusters
Return ==
    /\ pc = "partition"
    /\ ~changed
    /\ pc' = "done"
    /\ UNCHANGED <<arg, k, err, data, emptyMean, numClusters, idx, clusters, changed, eqs, iter>>

Next ==
    \/ \E d \in DataSets : NewKMeans(d)
    \/ \E n \in 0..(Len(data) + 1) : \E r \in 0..(Len(data) - 1) : Calculate(n, r)
    \/ SeedRound
    \/ SeedReturn
    \/ Assign
    \/ Update
    \/ Return

Spec == Init /\ [][Next]_vars

\* Calculate is sequential code: once called, it takes its next step
FairSpec ==
    /\ Spec
    /\ WF_vars(SeedRound)
    /\ WF_vars(SeedReturn)
    /\ WF_vars(Assign)
    /\ WF_vars(Update)
    /\ WF_vars(Return)

\* ------------------------------ claims ---------------------------------
\* Calculate was called with 1 <= numClusters <= |observations|
InContract == 1 <= numClusters /\ numClusters <= Len(data)

Running == pc \in {"seeding", "partition", "update", "done", "panic", "oom"}

Count(v, s) == Cardinality({i \in 1..Len(s) : s[i] = v})

RECURSIVE MemberCount(_, _)
MemberCount(v, cl) ==
    IF Len(cl) = 0 THEN 0 ELSE Count(v, Head(cl).Nodes) + MemberCount(v, Tail(cl))

\* the member lists hold every observation exactly as often as the input does
IsPartition(cl) ==
    /\ TotalMembers(cl) = Len(data)
    /\ \A i \in 1..Len(data) : MemberCount(data[i], cl) = Count(data[i], data)

\* C1: whenever Calculate returns within the contract, every observation is
\* in exactly one returned member list exactly once, so the member lists
\* together hold |observations| members.
C1_PartitionComplete == (pc = "done" /\ InContract) => IsPartition(clusters)

\* C2: with |a-b|, the arithmetic average and exact equality, Calculate
\* eventually returns for every numClusters within the contract and every
\* first seed index.
C2_Terminates == (pc = "seeding" /\ InContract /\ emptyMean = "nan") ~> (pc = "done")

\* C3: after an update step the loop terminates if and only if equals(old,
\* new) held for every cluster in that iteration.
C3_StopRule ==
    (pc = "partition" /\ iter >= 1 /\ InContract)
        => (~changed <=> \A i \in 1..Len(eqs) : eqs[i])

\* C4: whenever Calculate returns within the contract, every member of
\* every returned cluster i has cluster i as its nearest centroid.
C4_NearestAtReturn ==
    (pc = "done" /\ InContract)
        => \A i \in 1..Len(clusters) : \A j \in 1..Len(clusters[i].Nodes) :
               nearestCluster(clusters[i].Nodes[j], clusters) = i - 1

Members(c) == {c.Nodes[j] : j \in 1..Len(c.Nodes)}

ExampleResult ==
    /\ Len(clusters) = 2
    /\ \E a \in 1..2 : \E b \in 1..2 :
          /\ a # b
          /\ clusters[a].Centroid = Num(2)
          /\ Len(clusters[a].Nodes) = 3
          /\ Members(clusters[a]) = {Num(1), Num(2), Num(3)}
          /\ clusters[b].Centroid = Num(11)
          /\ Len(clusters[b].Nodes) = 3
          /\ Members(clusters[b]) = {Num(10), Num(11), Num(12)}

\* C5: for [1, 2, 3, 10, 11, 12] and numClusters = 2, for every first seed
\* index Calculate returns the clusters (2, {1,2,3}) and (11, {10,11,12}).
C5_Example ==
    (pc = "seeding" /\ data = Example /\ numClusters = 2)
        ~> (pc = "done" /\ ExampleResult)

Distinct(s) == \A i \in 1..Len(s) : \A j \in 1..Len(s) : i # j => s[i] # s[j]

\* C6: with numClusters = |observations| and pairwise distinct values the
\* loop converges at the first assignment+update iteration and Calculate
\* returns singleton clusters whose member equals the centroid.
C6_OnePerObservation ==
    (numClusters = Len(data) /\ Len(data) >= 1 /\ Distinct(data))
        => /\ (pc = "partition" /\ iter >= 1) => ~changed
           /\ pc = "done" =>
                /\ iter = 1
                /\ Len(clusters) = Len(data)
                /\ \A i \in 1..Len(clusters) :
                       clusters[i].Nodes = <<clusters[i].Centroid>>

\* C7: Calculate(1) returns, for every first seed index, one cluster that
\* holds every observation exactly once and whose centroid is the mean of
\* all observations.
C7_SingleCluster ==
    (pc = "seeding" /\ numClusters = 1)
        ~> (pc = "done" /\ Len(clusters) = 1 /\ IsPartition(clusters)
              /\ clusters[1].Centroid = mean(data))

\* C8: within the contract the positions chosen by initClusters are valid
\* and pairwise distinct, and the j-th initial centroid is the observation
\* at the j-th chosen position.
C8_SeedDistinct ==
    (Running /\ InContract)
        => /\ Distinct(idx)
           /\ \A j \in 1..Len(idx) : idx[j] \in 0..(Len(data) - 1)
           /\ (pc = "seeding" \/ (pc = "partition" /\ iter = 0))
                => /\ Len(clusters) = Len(idx)
                   /\ \A j \in 1..Len(idx) :
                          clusters[j].Centroid = data[idx[j] + 1]

\* seeding finished with two equal-valued observations both chosen
C8_Witness ==
    /\ pc = "partition" /\ iter = 0 /\ InContract
    /\ Len(idx) = numClusters
    /\ \E i \in 1..Len(idx) : \E j \in 1..Len(idx) :
          i # j /\ data[idx[i] + 1] = data[idx[j] + 1]

\* C9: NewKMeans returns an error and a nil object exactly when the
\* observation collection is empty, otherwise an object and no error.
C9_Construction ==
    pc # "new"
        => /\ err <=> Len(arg) = 0
           /\ k = "nil" <=> Len(arg) = 0
           /\ k = "KMeans" => data = arg

\* NewKMeans was called with an empty collection
C9_Witness == pc = "error" /\ err /\ k = "nil" /\ Len(arg) = 0

\* C10: one more assignment+update iteration on the converged cluster set
\* leaves every centroid and every member list unchanged.
C10_Idempotent ==
    (pc = "done" /\ InContract /\ TotalMembers(clusters) + Len(data) <= MaxMembers)
        => LET a == assignAll(clusters)
               u == updateAll(a.clusters)
           IN a.crash = "none" /\ ~u.panicked /\ u.clusters = clusters

\* C11: within the contract the seeder produces exactly numClusters
\* clusters with empty member lists, the number of clusters never changes
\* during refinement, and Calculate returns exactly numClusters clusters.
C11_ClusterCount ==
    (Running /\ InContract)
        => /\ pc = "seeding" => Len(clusters) <= numClusters
           /\ pc # "seeding" => Len(clusters) = numClusters
           /\ (pc = "seeding" \/ (pc = "partition" /\ iter = 0))
                => \A j \in 1..Len(clusters) : clusters[j].Nodes = <<>>

\* Calculate returned several clusters
C11_Witness ==
    pc = "done" /\ InContract /\ numClusters >= 2 /\ Len(clusters) = numClusters

\* C12 as claimed: with numClusters > |observations| Calculate never leaves
\* the seeding loop, which runs forever without a crash or a result.
C12_SeedsForever ==
    (Running /\ numClusters > Len(data)) => pc = "seeding"

\* C12 as amended: with numClusters > |observations| Calculate never enters
\* refinement and never returns; the seeding loop chooses every position
\* once, and the round after that finds no unchosen position, keeps
\* nodeIdx = -1 and panics on k.data[-1].
C12_SeedingPanics ==
    (Running /\ numClusters > Len(data))
        => /\ pc \in {"seeding", "panic"}
           /\ Len(clusters) <= Len(data)
           /\ pc = "seeding" => (Len(idx) = Len(clusters) /\ Distinct(idx)
                                   /\ \A j \in 1..Len(idx) : idx[j] \in 0..(Len(data) - 1))
           /\ pc = "panic" => (Len(clusters) = Len(data) /\ Len(idx) = Len(data) + 1
                                 /\ idx[Len(idx)] = -1)
           /\ (pc = "seeding" /\ Len(clusters) = Len(data)) => nextSeed(clusters, idx) = -1

\* the seeding loop panicked after every position had been chosen
C12_Witness ==
    /\ pc = "panic" /\ numClusters > Len(data) /\ Len(data) >= 2
    /\ Len(clusters) = Len(data) /\ idx[Len(idx)] = -1

\* C14: at the start of every assignment step every member list is empty,
\* so at the end of every assignment step the member lists together hold
\* each observation exactly once.
C14_MembersPerIteration ==
    InContract
        => /\ (pc = "partition" /\ changed)
                => \A j \in 1..Len(clusters) : clusters[j].Nodes = <<>>
           /\ pc = "update" => IsPartition(clusters)

\* |data[q] - data[p]| for positions q, p, as an integer
Gap(q, p) == Abs(data[q + 1][1] - data[p + 1][1])

\* distance of position q to the nearest of the positions chosen before
\* round j
SeedGap(q, j) ==
    CHOOSE g \in {Gap(q, idx[i]) : i \in 1..(j - 1)} :
        \A i \in 1..(j - 1) : g <= Gap(q, idx[i])

\* positions not chosen before round j
Unchosen(j) == {q \in 0..(Len(data) - 1) : \A i \in 1..(j - 1) : idx[i] # q}

IsTarget(x, j, cl) ==
    /\ ~IsNaN(distance(x, cl[j].Centroid))
    /\ \A i \in 1..Len(cl) :
          \/ i = j
          \/ IsNaN(distance(x, cl[i].Centroid))
          \/ Less(distance(x, cl[j].Centroid), distance(x, cl[i].Centroid))
          \/ (i > j /\ ~Less(distance(x, cl[i].Centroid), distance(x, cl[j].Centroid)))

\* s[i..] is a subsequence of t[j..]
RECURSIVE SubseqFrom(_, _, _, _)
SubseqFrom(s, i, t, j) ==
    IF i > Len(s) THEN TRUE
    ELSE IF j > Len(t) THEN FALSE
    ELSE IF s[i] = t[j] THEN SubseqFrom(s, i + 1, t, j + 1)
    ELSE SubseqFrom(s, i, t, j + 1)

\* C16: in every assignment step each observation is appended to the member
\* list of the cluster with the nearest centroid (lowest index on ties), in
\* collection order, so each member list is in the order of the input
\* collection.
C16_NearestAssignment ==
    [][(pc = "partition" /\ pc' = "update" /\ InContract)
          => \A j \in 1..Len(clusters) :
                /\ clusters'[j].Nodes =
                      clusters[j].Nodes
                          \o SelectSeq(data, LAMBDA x : IsTarget(x, j, clusters))
                /\ SubseqFrom(clusters'[j].Nodes, 1, data, 1)]_vars

\* what the caller's mean returns for an empty slice
EmptyMeanValue == IF emptyMean = "nan" THEN NaN ELSE <<0, 1>>

\* C17: within the contract an assignment step can leave a cluster without
\* members, and the update step then calls mean on the empty list and stores
\* its result as the centroid (or lets its panic through): no guard, no
\* retained prior centroid.
C17_EmptyMeanStored ==
    InContract
        => /\ (pc = "partition" /\ iter >= 1)
                => \A j \in 1..Len(clusters) :
                      clusters[j].Nodes = <<>>
                          => (emptyMean # "panic" /\ clusters[j].Centroid = EmptyMeanValue)
           /\ pc = "panic"
                => (emptyMean = "panic"
                      /\ \E j \in 1..Len(clusters) : clusters[j].Nodes = <<>>)

\* two equal observations, two clusters: the second got no member and its
\* seeded centroid was replaced by the mean of the empty list
C17_Witness ==
    /\ pc = "partition" /\ iter >= 1 /\ InContract
    /\ Len(data) = 2 /\ data[1] = data[2] /\ numClusters = 2
    /\ clusters[2].Nodes = <<>>
    /\ clusters[2].Centroid = EmptyMeanValue
    /\ clusters[2].Centroid # data[idx[2] + 1]

\* sum of the values of a list of observations
RECURSIVE SumVals(_, _)
SumVals(n, i) == IF i > Len(n) THEN 0 ELSE n[i][1] + SumVals(n, i + 1)

\* c is the arithmetic average of the non-empty list of observations n
IsAverage(c, n) == c[2] > 0 /\ c[1] * Len(n) = c[2] * SumVals(n, 1)

\* C18: whenever Calculate returns, every returned cluster's Centroid is
\* the mean of that cluster's returned member list.
C18_CentroidIsMean ==
    pc = "done"
        => \A j \in 1..Len(clusters) :
              IF clusters[j].Nodes = <<>>
              THEN clusters[j].Centroid = EmptyMeanValue
              ELSE IsAverage(clusters[j].Centroid, clusters[j].Nodes)

\* Calculate returned after a second iteration, with accumulated members
C18_Witness == pc = "done" /\ iter = 2 /\ Len(clusters) = 2

\* m copies of s one after the other
RepeatSeq(s, m) == [i \in 1..(m * Len(s)) |-> s[((i - 1) % Len(s)) + 1]]

\* C19: Calculate(0) seeds exactly one cluster and proceeds exactly as
\* Calculate(1) does for the same random draw: for numClusters 0 and 1
\* alike, every state of the run is the same function of the data, the
\* drawn index and the number of iterations.
C19_ZeroAsOne ==
    (Running /\ numClusters \in {0, 1})
        => /\ Len(idx) = 1
           /\ Len(clusters) = 1
           /\ pc \in {"seeding", "partition", "update", "done", "oom"}
           /\ clusters[1].Centroid =
                 IF iter = 0 THEN data[idx[1] + 1] ELSE mean(data)
           /\ pc # "oom"
                => clusters[1].Nodes =
                      RepeatSeq(data, IF pc = "update" THEN iter + 1 ELSE iter)
           /\ (pc = "partition" /\ iter >= 1)
                => (changed <=> data[idx[1] + 1] = mean(data))
           /\ pc = "done" => iter = 1

\* Calculate(0) returned one cluster
C19_Witness ==
    pc = "done" /\ numClusters = 0 /\ Len(clusters) = 1 /\ Len(data) >= 2

====
